---- MODULE Spec2Model ----
(***************************************************************************)
(* A model of the edgar-export filing pipeline: Client.get_cik,            *)
(* Client._extract_filings / Client.get_filings, Client.get_filing_data,   *)
(* Stock._init_filings, Stock.export_url and the single-flight cache of    *)
(* routes.get_stock.                                                       *)
(*                                                                         *)
(* Strings that the code measures or concatenates are sequences of         *)
(* one-character strings; "" is the empty sequence << >>.                  *)
(***************************************************************************)
EXTENDS Integers, Sequences, FiniteSets, TLC

VARIABLES
    \* ---- Client.get_cik ----
    cik_resp,       \* what the search endpoint answers to the call
    cik_out         \* outcome of the get_cik call: returned value or raised

cikVars == <<cik_resp, cik_out>>

VARIABLES
    \* ---- Client.get_filings ----
    gf_pc,          \* position of the call: "start", "recent", "pages", "done", "raised"
    gf_cutoff,      \* the cutoff_date argument
    gf_sub,         \* the parsed submissions document (recent batch, number of files)
    gf_idx,         \* position of the `for file in extra_files` loop
    gf_filings,     \* the local list `filings`
    gf_log          \* every _fetch_response the call made, in order, with its answer

gfVars == <<gf_pc, gf_cutoff, gf_sub, gf_idx, gf_filings, gf_log>>

VARIABLES
    \* ---- Stock.__init__ / Stock._init_filings ----
    st_pc,          \* "get_cik", "get_filings", "index", "built", "raised"
    st_forms,       \* the filing_forms argument
    st_cik,         \* self.cik
    st_all,         \* all_filings, what get_filings returned
    st_i,           \* position of `for filing in all_filings`
    st_selected,    \* selected_filings
    st_filings,     \* self.filings
    st_calls        \* the get_filing_data calls made so far and how each ended

stVars == <<st_pc, st_forms, st_cik, st_all, st_i, st_selected, st_filings, st_calls>>

VARIABLES
    \* ---- routes.get_stock ----
    stock_cache,    \* key -> the Stock stored under it (0: the key is not in the dict)
    cache_locks,    \* _cache_locks: key -> its lock object (0: not in the dict)
    lock_owner,     \* the lock objects: the thread that holds each one (0: free)
    locks_lock,     \* the thread that holds _locks_lock (0: free)
    stocks,         \* the Stock objects, under construction or built
    th,             \* each thread's position in get_stock and its locals
    builds,         \* key -> how many times Stock(...) was started for it
    returned,       \* key -> the first Stock a get_stock call returned for it
    calls           \* get_stock calls made so far

gsVars == <<stock_cache, cache_locks, lock_owner, locks_lock, stocks, th, builds,
            returned, calls>>

VARIABLES
    \* ---- Client.get_filing_data ----
    fd_cik,         \* the cik argument
    fd_resp,        \* what the FilingSummary.xml request answers
    fd_out          \* outcome of the call: the returned index or raised

fdVars == <<fd_cik, fd_resp, fd_out>>

VARIABLES
    \* ---- Stock.export_url ----
    ex_pc,          \* "fetch", "write", "done", "raised"
    ex_category,    \* the report_category argument
    ex_resp,        \* what _fetch_response(url) answers
    ex_tables,      \* the local list `tables`, after the XBRL filter
    ex_wb,          \* the Workbook object, once it is created
    ex_file         \* what the call has written at the path `filename`

exVars == <<ex_pc, ex_category, ex_resp, ex_tables, ex_wb, ex_file>>

VARIABLES
    \* ---- Client._extract_filings, one call ----
    ef_data,        \* the `data` argument: the parallel arrays of one batch
    ef_filings,     \* the `filings` argument, the list as it is before the call
    ef_cutoff,      \* the cutoff_date argument
    ef_out          \* outcome of the call: the list after it and the returned flag

efVars == <<ef_data, ef_filings, ef_cutoff, ef_out>>

VARIABLES
    \* ---- Client.get_filings, called with and without a cutoff ----
    rg_answers,     \* what the registry answers: [1] to the submissions request,
                    \* [j + 1] to the request for the j-th listed overflow page
    rg_cutoff,      \* the cutoff_date of the call that has one
    rg_with,        \* outcome of get_filings(cik, cutoff_date)
    rg_without      \* outcome of get_filings(cik)

rgVars == <<rg_answers, rg_cutoff, rg_with, rg_without>>

vars == <<cikVars, gfVars, stVars, gsVars, fdVars, exVars, efVars, rgVars>>

None == "None"

(***************************************************************************)
(* Client.get_cik                                                          *)
(***************************************************************************)

\* width of the zero padding, "0"*(10 - len(cik))
PadLen == 10

\* longest raw id the search endpoint answers with in the model
MaxRawLen == 11

Digits == {"1", "2"}

RawIds == UNION { [1..n -> Digits] : n \in 0..MaxRawLen }

\* the hit list of a payload: no hit, one hit, or a first hit and a second one
HitLists == {<< >>} \cup { <<id>> : id \in RawIds }
                    \cup { <<id, <<"9">> >> : id \in RawIds }

\* what requests.get(url) and resp.json() can produce for the search request
\*   transport : requests.get raises (connection error, timeout)
\*   status    : the HTTP status code
\*   body      : "hits"      results["hits"]["hits"] is the list `hits`
\*               "no_key"    a JSON object without the "hits" key
\*               "not_json"  the body is not JSON, resp.json() raises ValueError
\*               "null_hits" results["hits"] is null, subscripting raises TypeError
SearchResponses ==
    { [transport |-> TRUE, status |-> 0, body |-> "none", hits |-> << >>] }
    \cup { [transport |-> FALSE, status |-> s, body |-> "none", hits |-> << >>]
             : s \in {404, 500} }
    \cup { [transport |-> FALSE, status |-> 200, body |-> b, hits |-> << >>]
             : b \in {"no_key", "not_json", "null_hits"} }
    \cup { [transport |-> FALSE, status |-> 200, body |-> "hits", hits |-> h]
             : h \in HitLists }

\* "0" * n : the empty string for n <= 0
RECURSIVE Zeros(_)
Zeros(n) == IF n <= 0 THEN << >> ELSE <<"0">> \o Zeros(n - 1)

PadCik_OnTheRight(raw) == raw \o Zeros(PadLen - Len(raw))

\* cik = "0"*(10 - len(cik)) + cik
PadCik(raw) == Zeros(PadLen - Len(raw)) \o raw

Returned(v) == [kind |-> "return", value |-> v, exc |-> None]
Raised(e)   == [kind |-> "raise", value |-> None, exc |-> e]

\* Client.get_cik as a function of what the search endpoint does
get_cik(resp) ==
    IF resp.transport THEN Raised("ConnectionError")
    ELSE IF resp.status # 200 THEN Returned(<< >>)
    ELSE IF resp.body = "not_json" THEN Raised("ValueError")
    ELSE IF resp.body = "null_hits" THEN Raised("TypeError")
    ELSE IF resp.body = "no_key" THEN Returned(<< >>)
    ELSE IF resp.hits = << >> THEN Returned(<< >>)
    ELSE Returned(PadCik(resp.hits[1]))

CikIdle == [kind |-> "idle", value |-> None, exc |-> None]

CikInit ==
    /\ cik_resp \in SearchResponses
    /\ cik_out = CikIdle

\* one call of get_cik: the endpoint answers, the method returns or raises
GetCik ==
    /\ cik_out = CikIdle
    /\ cik_out' = get_cik(cik_resp)
    /\ UNCHANGED cik_resp

(***************************************************************************)
(* Dates.  A datetime is a number of ticks, TicksPerDay ticks to the day;  *)
(* a filingDate string is either the ISO date of a day or not a date.      *)
(***************************************************************************)

TicksPerDay == 2

\* filing days of the registry are 1..MaxDay
MaxDay == 3

IsoDate(d) == [iso |-> TRUE, day |-> d]
BadDate    == [iso |-> FALSE, day |-> 0]
DateStrs   == { IsoDate(d) : d \in 1..MaxDay } \cup {BadDate}

\* datetime.now() while the call runs: the last filing day, past midnight
Now == MaxDay * TicksPerDay + 1

NoCutoff  == [present |-> FALSE, at |-> 0]
Cutoff(t) == [present |-> TRUE, at |-> t]

strptime_BadIsOld(s) == IF s.iso THEN Returned(s.day * TicksPerDay) ELSE Returned(0)

\* datetime.strptime(s, "%Y-%m-%d"): midnight of the day, ValueError otherwise
strptime(s) == IF s.iso THEN Returned(s.day * TicksPerDay) ELSE Raised("ValueError")

\* cutoffs the call is made with: none, one at midnight and one past midnight
\* of the day before the last filing day, and one that lies in the future
CutoffTicks == { (MaxDay - 1) * TicksPerDay, (MaxDay - 1) * TicksPerDay + 1, Now + 1 }
Cutoffs == {NoCutoff} \cup { Cutoff(t) : t \in CutoffTicks }

\* the windows of Stock._init_filings, in days: 365 * self.years is a whole
\* number of days, and the calendar of the model is MaxDay days long
WindowDays == 1..(MaxDay - 1)

\* cutoff_date = datetime.now() - timedelta(days=365 * self.years): the time of
\* day of now() stays in the cutoff
StockCutoff(days) == Cutoff(Now - days * TicksPerDay)

(***************************************************************************)
(* Batches: the parallel arrays of filings.recent and of an overflow page  *)
(***************************************************************************)

\* accession numbers the registry sends in one call, over all its batches
MaxRecords == 3

\* overflow pages listed in filings.files
MaxPages == 2

FormNames == <<"10-K", "8-K", "10-Q">>
FormAt(i) == FormNames[((i - 1) % Len(FormNames)) + 1]

Shorts == {"none", "filingDate", "form", "reportDate"}

Cut(seq, short) == IF short /\ Len(seq) > 0 THEN SubSeq(seq, 1, Len(seq) - 1) ELSE seq

\* the batch of page p with the given filing dates; `short` names the array
\* that is one entry shorter than accessionNumber, if any
MkBatch(p, dates, short) ==
    [ accessionNumber |-> [i \in 1..Len(dates) |-> <<p, i>>],
      filingDate      |-> Cut(dates, short = "filingDate"),
      form            |-> Cut([i \in 1..Len(dates) |-> FormAt(i)], short = "form"),
      reportDate      |-> Cut([i \in 1..Len(dates) |-> "rd"], short = "reportDate") ]

Batches(p, maxn) ==
    { MkBatch(p, dates, short) :
        dates \in UNION { [1..n -> DateStrs] : n \in 0..maxn }, short \in Shorts }

EmptyBatch == MkBatch(0, << >>, "none")

(***************************************************************************)
(* Client._extract_filings                                                 *)
(***************************************************************************)

NotSeen == [seen |-> FALSE, at |-> 0]

SkipOld_Never(filing_date, cutoff) == FALSE

\* `if filing_date < cutoff_date: continue`
SkipOld(filing_date, cutoff) == filing_date < cutoff.at

AppendRecord_AtFront(filings, rec) == <<rec>> \o filings

\* filings.append({...})
AppendRecord(filings, rec) == Append(filings, rec)

RECURSIVE ExtractLoop(_, _, _, _, _)

ExtractLoop_StopAtMissing(data, i, filings, oldest, cutoff) ==
    IF i > Len(data.accessionNumber) THEN [filings |-> filings, oldest |-> oldest]
    ELSE IF i > Len(data.filingDate) \/ i > Len(data.form) \/ i > Len(data.reportDate)
    THEN [filings |-> filings, oldest |-> oldest]
    ELSE
      LET filing_date_str == data.filingDate[i]
          parsed      == strptime(filing_date_str)
          filing_date == IF parsed.kind = "return" THEN parsed.value ELSE Now
          oldest2     == IF cutoff.present /\ (~oldest.seen \/ filing_date < oldest.at)
                         THEN [seen |-> TRUE, at |-> filing_date]
                         ELSE oldest
      IN  IF cutoff.present /\ SkipOld(filing_date, cutoff)
          THEN ExtractLoop(data, i + 1, filings, oldest2, cutoff)
          ELSE ExtractLoop(data, i + 1,
                           AppendRecord(filings,
                               [ accn       |-> data.accessionNumber[i],
                                 form       |-> data.form[i],
                                 filingDate |-> filing_date_str,
                                 reportDate |-> data.reportDate[i] ]),
                           oldest2, cutoff)

\* the for loop of _extract_filings from position i on, with the list built so
\* far and oldest_date_seen
ExtractLoop(data, i, filings, oldest, cutoff) ==
    IF i > Len(data.accessionNumber) THEN [filings |-> filings, oldest |-> oldest]
    ELSE IF i > Len(data.filingDate)
    THEN \* data["filingDate"][i] raises IndexError: logged, next position
         ExtractLoop(data, i + 1, filings, oldest, cutoff)
    ELSE
      LET filing_date_str == data.filingDate[i]
          parsed      == strptime(filing_date_str)
          filing_date == IF parsed.kind = "return" THEN parsed.value ELSE Now
          oldest2     == IF cutoff.present /\ (~oldest.seen \/ filing_date < oldest.at)
                         THEN [seen |-> TRUE, at |-> filing_date]
                         ELSE oldest
      IN  IF cutoff.present /\ SkipOld(filing_date, cutoff)
          THEN ExtractLoop(data, i + 1, filings, oldest2, cutoff)
          ELSE IF i > Len(data.form) \/ i > Len(data.reportDate)
          THEN \* building the dict raises IndexError: nothing is appended
               ExtractLoop(data, i + 1, filings, oldest2, cutoff)
          ELSE ExtractLoop(data, i + 1,
                           AppendRecord(filings,
                               [ accn       |-> data.accessionNumber[i],
                                 form       |-> data.form[i],
                                 filingDate |-> filing_date_str,
                                 reportDate |-> data.reportDate[i] ]),
                           oldest2, cutoff)

extract_filings_WithinWhenNoDate(data, filings, cutoff) ==
    LET r == ExtractLoop(data, 1, filings, NotSeen, cutoff)
    IN  [ filings |-> r.filings,
          within  |-> IF ~cutoff.present THEN TRUE
                      ELSE IF ~r.oldest.seen THEN TRUE
                      ELSE r.oldest.at >= cutoff.at ]

\* Client._extract_filings: the list after the merge and the returned flag
extract_filings(data, filings, cutoff) ==
    LET r == ExtractLoop(data, 1, filings, NotSeen, cutoff)
    IN  [ filings |-> r.filings,
          within  |-> IF ~cutoff.present THEN TRUE
                      ELSE IF ~r.oldest.seen THEN FALSE
                      ELSE r.oldest.at >= cutoff.at ]

\* a record that an earlier batch of the call has put in the list
EarlierRecord ==
    [ accn |-> <<0, 1>>, form |-> FormAt(1), filingDate |-> IsoDate(MaxDay),
      reportDate |-> "rd" ]

\* the batch of page 1 with n accession numbers, the filingDate entries
\* `dates`, nf form entries and nr reportDate entries
Arrays(n, dates, nf, nr) ==
    [ accessionNumber |-> [i \in 1..n |-> <<1, i>>],
      filingDate      |-> dates,
      form            |-> [i \in 1..nf |-> FormAt(i)],
      reportDate      |-> [i \in 1..nr |-> "rd"] ]

EfPending == [kind |-> "idle", value |-> None, exc |-> None]

\* the calls of the model: any batch whose filingDate, form and reportDate
\* arrays are as long as accessionNumber or shorter, with no cutoff, a cutoff
\* of get_filings or a cutoff of Stock._init_filings
EfInit ==
    /\ \E n \in 0..MaxRecords :
       \E nd \in 0..n, nf \in 0..n, nr \in 0..n :
       \E dates \in [1..nd -> DateStrs] :
          ef_data = Arrays(n, dates, nf, nr)
    /\ ef_filings \in {<< >>, <<EarlierRecord>>}
    /\ ef_cutoff \in Cutoffs \cup { StockCutoff(d) : d \in WindowDays }
    /\ ef_out = EfPending

EfIdle ==
    /\ ef_data = EmptyBatch
    /\ ef_filings = << >>
    /\ ef_cutoff = NoCutoff
    /\ ef_out = EfPending

\* one call of _extract_filings
ExtractFilings ==
    /\ ef_out = EfPending
    /\ ef_out' = Returned(extract_filings(ef_data, ef_filings, ef_cutoff))
    /\ UNCHANGED <<ef_data, ef_filings, ef_cutoff>>

(***************************************************************************)
(* Client.get_filings                                                      *)
(***************************************************************************)

\* answers of _fetch_response followed by resp.json()
Absent      == [ok |-> FALSE, json |-> FALSE, data |-> EmptyBatch]
NotJson     == [ok |-> TRUE, json |-> FALSE, data |-> EmptyBatch]
Payload(b)  == [ok |-> TRUE, json |-> TRUE, data |-> b]

NoSub == [recent |-> EmptyBatch, nfiles |-> 0]

RECURSIVE Received(_)
Received(log) ==
    IF log = << >> THEN 0
    ELSE Len(log[Len(log)].resp.data.accessionNumber)
            + Received(SubSeq(log, 1, Len(log) - 1))

StopPaging_Never(cutoff, within) == FALSE

\* `if cutoff_date is not None and not within_cutoff`
StopPaging(cutoff, within) == cutoff.present /\ ~within

GfInit ==
    /\ gf_pc = "start"
    /\ gf_cutoff \in Cutoffs
    /\ gf_sub = NoSub
    /\ gf_idx = 0
    /\ gf_filings = << >>
    /\ gf_log = << >>

GfIdle ==
    /\ gf_pc = None
    /\ gf_cutoff = NoCutoff
    /\ gf_sub = NoSub
    /\ gf_idx = 0
    /\ gf_filings = << >>
    /\ gf_log = << >>

\* lines 168-181: fetch the submissions document and parse it
GfFetchSubmissions ==
    /\ gf_pc = "start"
    /\ \/ /\ gf_log' = <<[page |-> 0, resp |-> Absent]>>
          /\ gf_pc' = "done"
          /\ UNCHANGED gf_sub
       \/ /\ gf_log' = <<[page |-> 0, resp |-> NotJson]>>
          /\ gf_pc' = "raised"
          /\ UNCHANGED gf_sub
       \/ \E b \in Batches(0, MaxRecords), k \in 0..MaxPages :
            /\ gf_log' = <<[page |-> 0, resp |-> Payload(b)]>>
            /\ gf_sub' = [recent |-> b, nfiles |-> k]
            /\ gf_pc' = "recent"
    /\ UNCHANGED <<gf_cutoff, gf_idx, gf_filings>>

\* lines 183-203: extract the recent batch, return early when it is beyond the cutoff
GfExtractRecent ==
    /\ gf_pc = "recent"
    /\ LET r == extract_filings(gf_sub.recent, gf_filings, gf_cutoff)
       IN  /\ gf_filings' = r.filings
           /\ IF StopPaging(gf_cutoff, r.within)
              THEN gf_pc' = "done" /\ UNCHANGED gf_idx
              ELSE gf_pc' = "pages" /\ gf_idx' = 1
    /\ UNCHANGED <<gf_cutoff, gf_sub, gf_log>>

\* lines 205-224: one iteration of `for file in extra_files`
GfPage ==
    /\ gf_pc = "pages"
    /\ gf_idx <= gf_sub.nfiles
    /\ \/ /\ gf_log' = Append(gf_log, [page |-> gf_idx, resp |-> Absent])
          /\ gf_idx' = gf_idx + 1
          /\ UNCHANGED <<gf_pc, gf_filings>>
       \/ /\ gf_log' = Append(gf_log, [page |-> gf_idx, resp |-> NotJson])
          /\ gf_pc' = "raised"
          /\ UNCHANGED <<gf_idx, gf_filings>>
       \/ \E b \in Batches(gf_idx, MaxRecords - Received(gf_log)) :
            LET r == extract_filings(b, gf_filings, gf_cutoff)
            IN  /\ gf_log' = Append(gf_log, [page |-> gf_idx, resp |-> Payload(b)])
                /\ gf_filings' = r.filings
                /\ IF StopPaging(gf_cutoff, r.within)
                   THEN gf_pc' = "done" /\ UNCHANGED gf_idx
                   ELSE gf_idx' = gf_idx + 1 /\ UNCHANGED gf_pc
    /\ UNCHANGED <<gf_cutoff, gf_sub>>

\* lines 226-227: the loop is exhausted, return filings
GfReturn ==
    /\ gf_pc = "pages"
    /\ gf_idx > gf_sub.nfiles
    /\ gf_pc' = "done"
    /\ UNCHANGED <<gf_cutoff, gf_sub, gf_idx, gf_filings, gf_log>>

(***************************************************************************)
(* Client.get_filings as a function of what the registry answers           *)
(***************************************************************************)

\* lines 205-227: `for file in extra_files` from the j-th answer on
RECURSIVE PageLoop(_, _, _, _)
PageLoop(answers, j, filings, cutoff) ==
    IF j > Len(answers) THEN Returned(filings)
    ELSE IF ~answers[j].ok THEN PageLoop(answers, j + 1, filings, cutoff)
    ELSE IF ~answers[j].json THEN Raised("ValueError")    \* resp.json()
    ELSE LET r == extract_filings(answers[j].data, filings, cutoff)
         IN  IF StopPaging(cutoff, r.within) THEN Returned(r.filings)  \* break
             ELSE PageLoop(answers, j + 1, r.filings, cutoff)

get_filings_NoPageUnderCutoff(answers, cutoff) ==
    IF ~answers[1].ok THEN Returned(<< >>)
    ELSE IF ~answers[1].json THEN Raised("ValueError")
    ELSE LET r == extract_filings(answers[1].data, << >>, cutoff)
         IN  IF cutoff.present THEN Returned(r.filings)
             ELSE PageLoop(answers, 2, r.filings, cutoff)

\* Client.get_filings: the returned list, or the exception of resp.json()
get_filings(answers, cutoff) ==
    IF ~answers[1].ok THEN Returned(<< >>)
    ELSE IF ~answers[1].json THEN Raised("ValueError")
    ELSE LET r == extract_filings(answers[1].data, << >>, cutoff)
         IN  IF StopPaging(cutoff, r.within) THEN Returned(r.filings)
             ELSE PageLoop(answers, 2, r.filings, cutoff)

RECURSIVE SumTo(_, _)
SumTo(lens, j) == IF j = 0 THEN 0 ELSE lens[j] + SumTo(lens, j - 1)

\* what can be wrong with one answer of the registry: the filingDate or the
\* form array of its batch is short, its first filingDate is not a date, the
\* fetch fails, or the body is not JSON
Defects(n) ==
    { <<0, "none">> }
    \cup { <<j, kind>> : j \in 1..n,
                         kind \in {"filingDate", "form", "unparseable", "absent", "not_json"} }

\* the dates with the first one replaced by a string that is not a date
FirstUnparseable(dates) ==
    [i \in 1..Len(dates) |-> IF i = 1 THEN BadDate ELSE dates[i]]

\* the j-th answer: the batch of page j - 1 holds lens[j] of the dates
AnswerAt(j, lens, dates, defect) ==
    LET mine == SubSeq(dates, SumTo(lens, j - 1) + 1, SumTo(lens, j))
    IN  IF defect = <<j, "absent">> THEN Absent
        ELSE IF defect = <<j, "not_json">> THEN NotJson
        ELSE IF defect = <<j, "unparseable">>
        THEN Payload(MkBatch(j - 1, FirstUnparseable(mine), "none"))
        ELSE Payload(MkBatch(j - 1, mine,
                             IF defect[1] = j THEN defect[2] ELSE "none"))

RgPending == [kind |-> "idle", value |-> None, exc |-> None]

\* the registries of the model: a recent batch and up to MaxPages overflow
\* pages with MaxRecords filings at most between them, and at most one defect
RgInit ==
    /\ \E k \in 0..MaxPages :
       \E lens \in [1..(k + 1) -> 0..MaxRecords] :
          /\ SumTo(lens, k + 1) <= MaxRecords
          /\ \E dates \in [1..SumTo(lens, k + 1) -> DateStrs \ {BadDate}] :
             \E defect \in Defects(k + 1) :
                rg_answers = [j \in 1..(k + 1) |-> AnswerAt(j, lens, dates, defect)]
    /\ rg_cutoff \in Cutoffs \ {NoCutoff}
    /\ rg_with = RgPending
    /\ rg_without = RgPending

RgIdle ==
    /\ rg_answers = << >>
    /\ rg_cutoff = NoCutoff
    /\ rg_with = RgPending
    /\ rg_without = RgPending

\* get_filings(cik, cutoff_date=cutoff)
RgCallWithCutoff ==
    /\ rg_with = RgPending
    /\ rg_with' = get_filings(rg_answers, rg_cutoff)
    /\ UNCHANGED <<rg_answers, rg_cutoff, rg_without>>

\* get_filings(cik) on the same registry
RgCallWithoutCutoff ==
    /\ rg_with # RgPending
    /\ rg_without = RgPending
    /\ rg_without' = get_filings(rg_answers, NoCutoff)
    /\ UNCHANGED <<rg_answers, rg_cutoff, rg_with>>

(***************************************************************************)
(* Client.get_filing_data                                                  *)
(***************************************************************************)

\* <Report> elements of one FilingSummary.xml
MaxReports == 4

\* the separator of `name_long.split(" - ")`
Sep == <<" ", "-", " ">>

\* "004 - Statement - Balance Sheet"
ExampleLong ==
    <<"0", "0", "4", " ", "-", " ", "S", "t", "a", "t", "e", "m", "e", "n", "t",
      " ", "-", " ", "B", "a", "l", "a", "n", "c", "e", " ", "S", "h", "e", "e", "t">>

\* "5 -  Doc " : blanks around the segment, nothing after it
PaddedLong == <<"5", " ", "-", " ", " ", "D", "o", "c", " ">>

\* "6 - statement"
TwoPartLong == <<"6", " ", "-", " ", "s", "t", "a", "t", "e", "m", "e", "n", "t">>

\* "7-St" : no " - " in it
NoSepLong == <<"7", "-", "S", "t">>

\* "All Reports", the long name of the summary entry that ends a manifest
SummaryLong == <<"A", "l", "l", " ", "R", "e", "p", "o", "r", "t", "s">>

\* the <LongName> texts of the registry, by the name the model gives each
LongNames == {"example", "padded", "twopart", "nosep"}

LongText(n) ==
    CASE n = "example" -> ExampleLong
      [] n = "padded"  -> PaddedLong
      [] n = "twopart" -> TwoPartLong
      [] n = "nosep"   -> NoSepLong
      [] n = "summary" -> SummaryLong

\* a <Report> without a <LongName>
NoLong == "absent"

\* the <Report> elements of the registry: does it have a <ShortName>, which
\* <LongName> it has, and which of <HtmlFileName> and <XmlFileName> it has
ReportShapes ==
    { [short |-> TRUE, long |-> n, file |-> "html"] : n \in LongNames }
    \cup { [short |-> TRUE,  long |-> "padded",  file |-> "xml"],
           [short |-> TRUE,  long |-> "example", file |-> "none"],
           [short |-> FALSE, long |-> "example", file |-> "html"],
           [short |-> TRUE,  long |-> NoLong,    file |-> "html"],
           [short |-> TRUE,  long |-> "summary", file |-> "none"] }

\* the <Report> elements of a manifest of at most maxn entries, in document
\* order; the short name of an entry is its position
Manifests(maxn) == UNION { [1..n -> ReportShapes] : n \in 0..maxn }

\* what requests.get(filing_summary_url) produces
\*   transport : requests.get raises
\*   status    : the HTTP status code
\*   root      : the document has a <MyReports> element
\*   reports   : the <Report> elements under it, in document order
FdResponses(maxn) ==
    { [transport |-> TRUE, status |-> 0, root |-> FALSE, reports |-> << >>] }
    \cup { [transport |-> FALSE, status |-> s, root |-> FALSE, reports |-> << >>]
             : s \in {200, 404, 500} }
    \cup { [transport |-> FALSE, status |-> 200, root |-> TRUE, reports |-> m]
             : m \in Manifests(maxn) }

\* the accession number of the filing
FdAccn == <<"1", "-", "2">>

DigitVal(c) == CASE c = "0" -> 0 [] c = "1" -> 1 [] c = "2" -> 2 [] OTHER -> 9

\* int(cik) for a string of digits
RECURSIVE IntOf(_)
IntOf(s) == IF s = << >> THEN 0 ELSE IntOf(SubSeq(s, 1, Len(s) - 1)) * 10 + DigitVal(s[Len(s)])

\* f"/{accn}".replace("-", "")
NoHyphens(s) == SelectSeq(s, LAMBDA c : c # "-")

\* base_url, as the two parts that vary
BaseUrl(cik, accn) == [cik |-> IntOf(cik), accn |-> NoHyphens(accn)]

\* str.split(sep) from position i on, `start` being where the segment began
RECURSIVE SplitFrom(_, _, _, _)
SplitFrom(s, sep, i, start) ==
    IF i + Len(sep) - 1 > Len(s) THEN <<SubSeq(s, start, Len(s))>>
    ELSE IF SubSeq(s, i, i + Len(sep) - 1) = sep
         THEN <<SubSeq(s, start, i - 1)>>
                 \o SplitFrom(s, sep, i + Len(sep), i + Len(sep))
         ELSE SplitFrom(s, sep, i + 1, start)

Split(s, sep) == SplitFrom(s, sep, 1, 1)

RECURSIVE LStrip(_)
LStrip(s) == IF s # << >> /\ s[1] = " " THEN LStrip(Tail(s)) ELSE s

RECURSIVE RStrip(_)
RStrip(s) ==
    IF s # << >> /\ s[Len(s)] = " " THEN RStrip(SubSeq(s, 1, Len(s) - 1)) ELSE s

\* str.strip()
Strip(s) == LStrip(RStrip(s))

LowerChar(c) ==
    CASE c = "A" -> "a" [] c = "B" -> "b" [] c = "D" -> "d"
      [] c = "R" -> "r" [] c = "S" -> "s" [] OTHER -> c

\* str.lower()
Lower(s) == [i \in 1..Len(s) |-> LowerChar(s[i])]

Category_LastSegment(name_long) ==
    LET segs == Split(name_long, Sep)
    IN  IF Len(segs) < 2 THEN Raised("IndexError")
        ELSE Returned(Lower(Strip(segs[Len(segs)])))

\* report_dict["name_long"].split(" - ")[1].strip().lower()
Category(name_long) ==
    LET segs == Split(name_long, Sep)
    IN  IF Len(segs) < 2 THEN Raised("IndexError")
        ELSE Returned(Lower(Strip(segs[2])))

\* the body of the try block for one <Report>: report_dict and report_type,
\* or the exception that the except clause catches
ParseReport(report, i, base_url) ==
    IF ~report.short THEN Raised("AttributeError")
    ELSE IF report.long = NoLong THEN Raised("AttributeError")
    ELSE IF report.file = "none" THEN Raised("AttributeError")
    ELSE LET report_type == Category(LongText(report.long))
             report_dict ==
                 [ name_short |-> i,
                   name_long  |-> LongText(report.long),
                   url        |-> [ base |-> base_url,
                                    file |-> IF report.file = "html"
                                             THEN <<"htm", i>>
                                             ELSE <<"xml", i>> ] ]
         IN  IF report_type.kind = "raise" THEN report_type
             ELSE Returned([type |-> report_type.value, dict |-> report_dict])

\* all_reports[report_type].append(report_dict), or a new one-element list
AddReport(all_reports, report_type, report_dict) ==
    IF report_type \in DOMAIN all_reports
    THEN [all_reports EXCEPT ![report_type] = Append(@, report_dict)]
    ELSE [c \in DOMAIN all_reports \cup {report_type} |->
            IF c = report_type THEN <<report_dict>> ELSE all_reports[c]]

\* reports.find_all("report")[:-1]
AllButLast(reports) == SubSeq(reports, 1, Len(reports) - 1)

\* the for loop of get_filing_data from position i on
RECURSIVE IndexReports(_, _, _, _)
IndexReports(reports, i, all_reports, base_url) ==
    IF i > Len(reports) THEN all_reports
    ELSE LET r == ParseReport(reports[i], i, base_url)
         IN  IndexReports(reports, i + 1,
                 IF r.kind = "raise" THEN all_reports     \* logged, next entry
                 ELSE AddReport(all_reports, r.value.type, r.value.dict),
                 base_url)

\* the empty dict
NoReports == [c \in {} |-> << >>]

\* Client.get_filing_data as a function of what the manifest request does
get_filing_data(cik, accn, resp) ==
    IF cik = << >> THEN Raised("ValueError")             \* int("")
    ELSE IF resp.transport THEN Raised("ConnectionError")
    ELSE IF resp.status >= 400 THEN Raised("HTTPError")  \* raise_for_status()
    ELSE IF ~resp.root THEN Returned(NoReports)
    ELSE Returned(IndexReports(AllButLast(resp.reports), 1, NoReports,
                               BaseUrl(cik, accn)))

FdPending == [kind |-> "idle", value |-> None, exc |-> None]

\* the calls of the model: a resolved identifier with every answer, and the
\* empty identifier
FdInit ==
    /\ fd_cik \in { << >>, PadCik(<<"1", "2">>) }
    /\ fd_resp \in FdResponses(MaxReports)
    /\ fd_cik = << >> => fd_resp.reports = << >> /\ fd_resp.status = 200
    /\ fd_out = FdPending

FdIdle ==
    /\ fd_cik = << >>
    /\ fd_resp = None
    /\ fd_out = FdPending

\* one call of get_filing_data
GetFilingData ==
    /\ fd_out = FdPending
    /\ fd_out' = get_filing_data(fd_cik, FdAccn, fd_resp)
    /\ UNCHANGED <<fd_cik, fd_resp>>

(***************************************************************************)
(* Stock.__init__ and Stock._init_filings                                  *)
(***************************************************************************)

\* filings that get_filings hands to _init_filings in the model
MaxFilings == 3

Forms == {"10-K", "10-Q", "8-K"}

\* the default of the filing_forms parameter
DefaultForms == {"10-K", "10-Q"}

FormSets == {DefaultForms, {"10-K"}, {"8-K", "10-Q"}, {}}

\* a list get_filings can return: records with distinct accession numbers
FilingLists(maxn) ==
    UNION { { [i \in 1..n |-> [ accn |-> i, form |-> f[i],
                                filingDate |-> IsoDate(MaxDay), reportDate |-> "rd" ]]
                : f \in [1..n -> Forms] } : n \in 0..maxn }

\* the search responses a Stock is built from: none that resolves, one that does
BuildSearchResponses ==
    { r \in SearchResponses :
        r.body # "hits" \/ r.hits \in { << >>, << <<"1", "2">> >> } }

\* how the get_filing_data call for one filing ends: the index, an HTTPError
\* of raise_for_status with status 404, or any other exception
IndexOutcomes == {"ok", "404", "error"}

\* the index get_filing_data returns for a filing
ReportsOf(accn) == [manifest |-> accn]

FormWanted_Any(filing, forms) == TRUE

\* `if filing["form"] not in filing_forms: continue`
FormWanted(filing, forms) == filing.form \in forms

\* selected_filings.append({...})
AppendBundle(selected, bundle) == Append(selected, bundle)

\* get_filing_data(cik, accn) sends its request: int(cik) did not raise
ManifestRequested(filing, forms, cik) == FormWanted(filing, forms) /\ cik # << >>

IndexFiling_AnyCik(selected, filing, forms, cik, outcome) ==
    IF ~FormWanted(filing, forms) THEN selected
    ELSE IF outcome = "ok"
         THEN AppendBundle(selected,
                  [metadata |-> filing, reports |-> ReportsOf(filing.accn)])
         ELSE selected

\* one iteration of `for filing in all_filings`
IndexFiling(selected, filing, forms, cik, outcome) ==
    IF ~FormWanted(filing, forms) THEN selected
    ELSE IF cik = << >> THEN selected          \* int("") raises ValueError, caught
    ELSE IF outcome = "ok"
         THEN AppendBundle(selected,
                  [metadata |-> filing, reports |-> ReportsOf(filing.accn)])
         ELSE selected                         \* any exception: logged, skipped

\* the whole loop `for filing in all_filings`, from position i on
RECURSIVE IndexAll(_, _, _, _, _, _)
IndexAll(selected, all, i, forms, cik, outcomes) ==
    IF i > Len(all) THEN selected
    ELSE IndexAll(IndexFiling(selected, all[i], forms, cik, outcomes[i]),
                  all, i + 1, forms, cik, outcomes)

StInit ==
    /\ st_pc = "get_cik"
    /\ st_forms \in FormSets
    /\ st_cik = << >>
    /\ st_all = << >>
    /\ st_i = 0
    /\ st_selected = << >>
    /\ st_filings = << >>
    /\ st_calls = << >>

StIdle ==
    /\ st_pc = None
    /\ st_forms = {}
    /\ st_cik = << >>
    /\ st_all = << >>
    /\ st_i = 0
    /\ st_selected = << >>
    /\ st_filings = << >>
    /\ st_calls = << >>

\* Stock.__init__ lines 32-44: self.cik = client.get_cik(ticker)
StGetCik ==
    /\ st_pc = "get_cik"
    /\ \E resp \in BuildSearchResponses :
         LET out == get_cik(resp)
         IN  IF out.kind = "raise"
             THEN st_pc' = "raised" /\ UNCHANGED st_cik
             ELSE st_pc' = "get_filings" /\ st_cik' = out.value
    /\ UNCHANGED <<st_forms, st_all, st_i, st_selected, st_filings, st_calls>>

\* _init_filings lines 61-75: all_filings = self.client.get_filings(...)
StGetFilings ==
    /\ st_pc = "get_filings"
    /\ \/ st_pc' = "raised" /\ UNCHANGED <<st_all, st_i>>
       \/ \E fs \in FilingLists(MaxFilings) :
            /\ st_all' = fs
            /\ st_i' = 1
            /\ st_pc' = "index"
    /\ UNCHANGED <<st_forms, st_cik, st_selected, st_filings, st_calls>>

\* the get_filing_data call of one iteration, if the iteration makes one: an
\* empty cik ends it with the ValueError of int(cik)
NoteCall(made, filing, forms, cik, outcome) ==
    IF FormWanted(filing, forms)
    THEN Append(made, [ accn    |-> filing.accn,
                        outcome |-> IF cik = << >> THEN "error" ELSE outcome ])
    ELSE made

StIndex_FailureRaises ==
    /\ st_pc = "index"
    /\ st_i <= Len(st_all)
    /\ \E outcome \in IndexOutcomes :
         /\ st_selected' = IndexFiling(st_selected, st_all[st_i], st_forms, st_cik, outcome)
         /\ st_calls' = NoteCall(st_calls, st_all[st_i], st_forms, st_cik, outcome)
         /\ st_pc' = IF FormWanted(st_all[st_i], st_forms) /\ outcome = "error"
                     THEN "raised" ELSE st_pc
    /\ st_i' = st_i + 1
    /\ UNCHANGED <<st_forms, st_cik, st_all, st_filings>>

\* _init_filings lines 77-104: one iteration of the loop
StIndex ==
    /\ st_pc = "index"
    /\ st_i <= Len(st_all)
    /\ \E outcome \in IndexOutcomes :
         /\ st_selected' = IndexFiling(st_selected, st_all[st_i], st_forms, st_cik, outcome)
         /\ st_calls' = NoteCall(st_calls, st_all[st_i], st_forms, st_cik, outcome)
         /\ st_pc' = st_pc
    /\ st_i' = st_i + 1
    /\ UNCHANGED <<st_forms, st_cik, st_all, st_filings>>

\* lines 106-110 and 45-49: the loop is exhausted, self.filings is assigned
StDone ==
    /\ st_pc = "index"
    /\ st_i > Len(st_all)
    /\ st_filings' = st_selected
    /\ st_pc' = "built"
    /\ UNCHANGED <<st_forms, st_cik, st_all, st_i, st_selected, st_calls>>

(***************************************************************************)
(* Stock.export_url, with Client._fetch_response, Stock._extract_tables    *)
(* and Stock._is_xbrl_table                                                *)
(***************************************************************************)

\* <table> elements of one report document
MaxTables == 4

\* the longest sheet title, sheet_name[:31]
SheetNameMax == 31

EXPECTED_FIRST_COLUMN ==
    <<"Name:", "Namespace Prefix:", "Data Type:", "Balance Type:", "Period Type:">>

\* first columns of the frames pandas makes of the documents' tables: the
\* label sequence itself, its first four labels, the sequence with a sixth row,
\* with its first two labels swapped, with another last label, and a column
\* of figures
FirstColumns ==
    { EXPECTED_FIRST_COLUMN,
      SubSeq(EXPECTED_FIRST_COLUMN, 1, 4),
      EXPECTED_FIRST_COLUMN \o <<"Extra:">>,
      <<"Namespace Prefix:", "Name:", "Data Type:", "Balance Type:", "Period Type:">>,
      SubSeq(EXPECTED_FIRST_COLUMN, 1, 4) \o <<"Extra:">>,
      <<"Revenue">> }

\* a <table> element: pd.read_html gives a frame with this first column, or
\* raises ValueError
TableShapes ==
    { [parses |-> FALSE, column |-> << >>] }
    \cup { [parses |-> TRUE, column |-> c] : c \in FirstColumns }

\* the <table> elements of a document of at most maxn tables
Documents(maxn) == UNION { [1..n -> TableShapes] : n \in 0..maxn }

Categories == {"statement", "disclosure", "document"}

\* what requests.get(url, timeout=10) produces for the report document
ExResponses(maxn) ==
    { [transport |-> TRUE, status |-> 0, tables |-> << >>] }
    \cup { [transport |-> FALSE, status |-> s, tables |-> << >>] : s \in {404, 500} }
    \cup { [transport |-> FALSE, status |-> 200, tables |-> d] : d \in Documents(maxn) }

NoResponse == [present |-> FALSE, tables |-> << >>]

fetch_response_AnyStatus(r) ==
    IF r.transport THEN NoResponse
    ELSE [present |-> TRUE, tables |-> r.tables]

\* Client._fetch_response: the response when the status is 200, None otherwise
fetch_response(r) ==
    IF r.transport THEN NoResponse                      \* RequestException, caught
    ELSE IF r.status = 200 THEN [present |-> TRUE, tables |-> r.tables]
    ELSE NoResponse

\* str(n) for n >= 0
RECURSIVE Decimal(_)
Decimal(n) ==
    LET d == <<"0", "1", "2", "3", "4", "5", "6", "7", "8", "9">>[(n % 10) + 1]
    IN  IF n < 10 THEN <<d>> ELSE Decimal(n \div 10) \o <<d>>

\* f"Table_{idx}"
TableName(idx) == <<"T", "a", "b", "l", "e", "_">> \o Decimal(idx)

TextContent == <<"T", "e", "x", "t", "_", "C", "o", "n", "t", "e", "n", "t">>

\* Stock._extract_tables from position idx on: (name, frame) of every table
\* that pd.read_html can read
RECURSIVE extract_tables(_, _)
extract_tables(tables, idx) ==
    IF idx > Len(tables) THEN << >>
    ELSE (IF tables[idx].parses
          THEN << [name |-> TableName(idx), idx |-> idx, column |-> tables[idx].column] >>
          ELSE << >>)
            \o extract_tables(tables, idx + 1)

is_xbrl_table_Prefix(df) ==
    /\ Len(df.column) >= Len(EXPECTED_FIRST_COLUMN)
    /\ SubSeq(df.column, 1, Len(EXPECTED_FIRST_COLUMN)) = EXPECTED_FIRST_COLUMN

\* Stock._is_xbrl_table: df.iloc[:, 0].tolist() == EXPECTED_FIRST_COLUMN
is_xbrl_table(df) == df.column = EXPECTED_FIRST_COLUMN

\* tables = [t for t in tables if not self._is_xbrl_table(t[1])]
DropXbrl(tables) == SelectSeq(tables, LAMBDA t : ~is_xbrl_table(t))

\* sheet_name[:31]
Truncate(name) ==
    IF Len(name) <= SheetNameMax THEN name ELSE SubSeq(name, 1, SheetNameMax)

WantsTextSheet_Always(report_category) == TRUE

\* `if report_category != "statement"`
WantsTextSheet(report_category) == report_category # "statement"

\* the sheets of the workbook after both create_sheet blocks
Sheets(tables, report_category) ==
    [ j \in 1..Len(tables) |->
        [title |-> Truncate(tables[j].name), kind |-> "table", idx |-> tables[j].idx] ]
    \o (IF WantsTextSheet(report_category)
        THEN << [title |-> TextContent, kind |-> "text", idx |-> 0] >>
        ELSE << >>)

NoWorkbook == [created |-> FALSE, sheets |-> << >>]
NoFile     == [state |-> "absent", sheets |-> << >>]

ExInit ==
    /\ ex_pc = "fetch"
    /\ ex_category \in Categories
    /\ ex_resp \in ExResponses(MaxTables)
    /\ ex_tables = << >>
    /\ ex_wb = NoWorkbook
    /\ ex_file = NoFile

ExIdle ==
    /\ ex_pc = None
    /\ ex_category = None
    /\ ex_resp = None
    /\ ex_tables = << >>
    /\ ex_wb = NoWorkbook
    /\ ex_file = NoFile

\* lines 129-145: fetch the document, raise RuntimeError when there is no
\* response, else extract the tables and drop the XBRL ones
ExFetch ==
    /\ ex_pc = "fetch"
    /\ LET resp == fetch_response(ex_resp)
       IN  IF ~resp.present
           THEN ex_pc' = "raised" /\ UNCHANGED ex_tables
           ELSE /\ ex_tables' = DropXbrl(extract_tables(resp.tables, 1))
                /\ ex_pc' = "write"
    /\ UNCHANGED <<ex_category, ex_resp, ex_wb, ex_file>>

\* lines 147-161: the workbook is made, filled and saved.  Workbook.save
\* raises for a workbook with no sheet, leaving at the path nothing or a file
\* that is not a workbook; it raises as well when the path cannot be written
ExWrite ==
    /\ ex_pc = "write"
    /\ ex_wb' = [created |-> TRUE, sheets |-> Sheets(ex_tables, ex_category)]
    /\ IF ex_wb'.sheets = << >>
       THEN /\ ex_pc' = "raised"
            /\ ex_file' \in {NoFile, [state |-> "broken", sheets |-> << >>]}
       ELSE \/ /\ ex_pc' = "done"
               /\ ex_file' = [state |-> "workbook", sheets |-> ex_wb'.sheets]
            \/ /\ ex_pc' = "raised"
               /\ ex_file' = NoFile
    /\ UNCHANGED <<ex_category, ex_resp, ex_tables>>

(***************************************************************************)
(* routes.get_stock, _get_lock and the Stock build under the per-key lock  *)
(***************************************************************************)

\* request threads
NumThreads == 2

\* get_stock calls made in one run, over all threads
MaxCalls == 3

\* filings that get_filings hands to a build under the cache
CacheFilings == 1

Threads == 1..NumThreads

Tickers == {"aapl", "AAPL"}
YearsSet == {5, 10}

\* ticker.upper()
Upper(ticker) == IF ticker = "aapl" THEN "AAPL" ELSE ticker

Keys == { <<Upper(tk), y>> : tk \in Tickers, y \in YearsSet }

NoNet == [search |-> 0, submissions |-> 0, manifest |-> 0]

\* a thread outside get_stock
ThreadIdle ==
    [ pc |-> "idle", client |-> FALSE, key |-> <<"", 0>>,
      lock |-> 0, stock |-> 0, result |-> 0, net |-> NoNet, prior |-> 0 ]

\* a Stock object right after `self.years = years`
NewStock(ticker, years) ==
    [ ticker |-> Upper(ticker), years |-> years, cik |-> << >>, filings |-> << >>,
      stage |-> "new" ]

\* `cache_key in stock_cache`
InCache(cache, key) == cache[key] # 0

RecheckHit_Never(cache, key) == FALSE

\* the re-check of lines 74-78, inside the lock
RecheckHit(cache, key) == InCache(cache, key)

GsInit ==
    /\ stock_cache = [k \in Keys |-> 0]
    /\ cache_locks = [k \in Keys |-> 0]
    /\ lock_owner = << >>
    /\ locks_lock = 0
    /\ stocks = << >>
    /\ th = [t \in Threads |-> ThreadIdle]
    /\ builds = [k \in Keys |-> 0]
    /\ returned = [k \in Keys |-> 0]
    /\ calls = 0

GsIdle ==
    /\ stock_cache = << >>
    /\ cache_locks = << >>
    /\ lock_owner = << >>
    /\ locks_lock = 0
    /\ stocks = << >>
    /\ th = << >>
    /\ builds = << >>
    /\ returned = << >>
    /\ calls = 0

\* a call returns the Stock s for the key
NoteReturn(key, s) ==
    returned' = IF returned[key] = 0 THEN [returned EXCEPT ![key] = s] ELSE returned

Release(l) == lock_owner' = [lock_owner EXCEPT ![l] = 0]

\* lines 57-62: get_client(), `if not client: return None`; ticker is replaced
\* by ticker.upper() and lives on in the cache key
Call(t) ==
    /\ th[t].pc = "idle"
    /\ calls < MaxCalls
    /\ calls' = calls + 1
    /\ \E tk \in Tickers, y \in YearsSet, c \in BOOLEAN :
         th' = [th EXCEPT ![t] =
                 [ ThreadIdle EXCEPT
                     !.pc = IF c THEN "fast" ELSE "returned",
                     !.client = c,
                     !.key = <<Upper(tk), y>>,
                     !.prior = returned[<<Upper(tk), y>>] ]]
    /\ UNCHANGED <<stock_cache, cache_locks, lock_owner, locks_lock, stocks, builds,
                   returned>>

\* lines 64-67: the fast path, no lock held
FastPath(t) ==
    /\ th[t].pc = "fast"
    /\ IF InCache(stock_cache, th[t].key)
       THEN /\ th' = [th EXCEPT ![t].pc = "returned",
                                ![t].result = stock_cache[th[t].key]]
            /\ NoteReturn(th[t].key, stock_cache[th[t].key])
       ELSE /\ th' = [th EXCEPT ![t].pc = "get_lock"]
            /\ UNCHANGED returned
    /\ UNCHANGED <<stock_cache, cache_locks, lock_owner, locks_lock, stocks, builds,
                   calls>>

\* _get_lock line 34: `with _locks_lock:` is entered
LocksLockAcquire(t) ==
    /\ th[t].pc = "get_lock"
    /\ locks_lock = 0
    /\ locks_lock' = t
    /\ th' = [th EXCEPT ![t].pc = "lookup_lock"]
    /\ UNCHANGED <<stock_cache, cache_locks, lock_owner, stocks, builds, returned,
                   calls>>

LookupLock_OneLockForAll(t) ==
    /\ th[t].pc = "lookup_lock"
    /\ locks_lock = t
    /\ IF cache_locks[th[t].key] = 0
       THEN /\ lock_owner' = IF lock_owner = << >> THEN <<0>> ELSE lock_owner
            /\ cache_locks' = [cache_locks EXCEPT ![th[t].key] = 1]
       ELSE UNCHANGED <<lock_owner, cache_locks>>
    /\ th' = [th EXCEPT ![t].pc = "acquire", ![t].lock = cache_locks'[th[t].key]]
    /\ locks_lock' = 0
    /\ UNCHANGED <<stock_cache, stocks, builds, returned, calls>>

\* _get_lock lines 35-37: look the lock up, create it if it is not there,
\* leave the with block
LookupLock(t) ==
    /\ th[t].pc = "lookup_lock"
    /\ locks_lock = t
    /\ IF cache_locks[th[t].key] = 0
       THEN /\ lock_owner' = Append(lock_owner, 0)
            /\ cache_locks' = [cache_locks EXCEPT ![th[t].key] = Len(lock_owner) + 1]
       ELSE UNCHANGED <<lock_owner, cache_locks>>
    /\ th' = [th EXCEPT ![t].pc = "acquire", ![t].lock = cache_locks'[th[t].key]]
    /\ locks_lock' = 0
    /\ UNCHANGED <<stock_cache, stocks, builds, returned, calls>>

KeyLockAcquire_NoWait(t) ==
    /\ th[t].pc = "acquire"
    /\ lock_owner' = [lock_owner EXCEPT ![th[t].lock] = t]
    /\ th' = [th EXCEPT ![t].pc = "recheck"]
    /\ UNCHANGED <<stock_cache, cache_locks, locks_lock, stocks, builds, returned,
                   calls>>

\* line 71: `with lock:` is entered once the lock is free
KeyLockAcquire(t) ==
    /\ th[t].pc = "acquire"
    /\ lock_owner[th[t].lock] = 0
    /\ lock_owner' = [lock_owner EXCEPT ![th[t].lock] = t]
    /\ th' = [th EXCEPT ![t].pc = "recheck"]
    /\ UNCHANGED <<stock_cache, cache_locks, locks_lock, stocks, builds, returned,
                   calls>>

\* lines 74-78: the re-check under the lock; a hit returns and releases
Recheck(t) ==
    /\ th[t].pc = "recheck"
    /\ IF RecheckHit(stock_cache, th[t].key)
       THEN /\ th' = [th EXCEPT ![t].pc = "returned",
                                ![t].result = stock_cache[th[t].key]]
            /\ NoteReturn(th[t].key, stock_cache[th[t].key])
            /\ Release(th[t].lock)
       ELSE /\ th' = [th EXCEPT ![t].pc = "construct"]
            /\ UNCHANGED <<lock_owner, returned>>
    /\ UNCHANGED <<stock_cache, cache_locks, locks_lock, stocks, builds, calls>>

Construct_PublishFirst(t) ==
    /\ th[t].pc = "construct"
    /\ stocks' = Append(stocks, NewStock(th[t].key[1], th[t].key[2]))
    /\ builds' = [builds EXCEPT ![th[t].key] = @ + 1]
    /\ th' = [th EXCEPT ![t].pc = "build_cik", ![t].stock = Len(stocks) + 1]
    /\ stock_cache' = [stock_cache EXCEPT ![th[t].key] = Len(stocks) + 1]
    /\ UNCHANGED <<cache_locks, lock_owner, locks_lock, returned, calls>>

\* line 85 and Stock.__init__ lines 32-36: Stock(...) is entered, the object
\* exists, known to this thread alone
Construct(t) ==
    /\ th[t].pc = "construct"
    /\ stocks' = Append(stocks, NewStock(th[t].key[1], th[t].key[2]))
    /\ builds' = [builds EXCEPT ![th[t].key] = @ + 1]
    /\ th' = [th EXCEPT ![t].pc = "build_cik", ![t].stock = Len(stocks) + 1]
    /\ UNCHANGED <<stock_cache, cache_locks, lock_owner, locks_lock, returned, calls>>

BuildGetCik_KeepsLock(t) ==
    /\ th[t].pc = "build_cik"
    /\ \E resp \in BuildSearchResponses :
         LET out == get_cik(resp)
         IN  IF out.kind = "raise"
             THEN /\ th' = [th EXCEPT ![t].pc = "raised",
                                      ![t].net.search = @ + 1]
                  /\ UNCHANGED <<stocks, lock_owner>>
             ELSE /\ th' = [th EXCEPT ![t].pc = "build_filings",
                                      ![t].net.search = @ + 1]
                  /\ stocks' = [stocks EXCEPT ![th[t].stock].cik = out.value,
                                              ![th[t].stock].stage = "cik"]
                  /\ UNCHANGED lock_owner
    /\ UNCHANGED <<stock_cache, cache_locks, locks_lock, builds, returned, calls>>

\* Stock.__init__ lines 37-44: self.cik = client.get_cik(ticker); an exception
\* leaves get_stock through the with block, which releases the lock
BuildGetCik(t) ==
    /\ th[t].pc = "build_cik"
    /\ \E resp \in BuildSearchResponses :
         LET out == get_cik(resp)
         IN  IF out.kind = "raise"
             THEN /\ th' = [th EXCEPT ![t].pc = "raised",
                                      ![t].net.search = @ + 1]
                  /\ Release(th[t].lock)
                  /\ UNCHANGED stocks
             ELSE /\ th' = [th EXCEPT ![t].pc = "build_filings",
                                      ![t].net.search = @ + 1]
                  /\ stocks' = [stocks EXCEPT ![th[t].stock].cik = out.value,
                                              ![th[t].stock].stage = "cik"]
                  /\ UNCHANGED lock_owner
    /\ UNCHANGED <<stock_cache, cache_locks, locks_lock, builds, returned, calls>>

\* Stock.__init__ line 45, _init_filings: get_filings sends the submissions
\* request and returns a list or raises on a body it cannot read; the loop
\* indexes the list; self.filings is assigned and the constructor returns
BuildFilings(t) ==
    /\ th[t].pc = "build_filings"
    /\ \/ /\ th' = [th EXCEPT ![t].pc = "raised", ![t].net.submissions = @ + 1]
          /\ Release(th[t].lock)
          /\ UNCHANGED stocks
       \/ \E fs \in FilingLists(CacheFilings) :
          \E outcomes \in [1..Len(fs) -> IndexOutcomes] :
            LET cik == stocks[th[t].stock].cik
            IN  /\ stocks' = [stocks EXCEPT
                     ![th[t].stock].filings =
                         IndexAll(<< >>, fs, 1, DefaultForms, cik, outcomes),
                     ![th[t].stock].stage = "built"]
                /\ th' = [th EXCEPT
                     ![t].pc = "publish",
                     ![t].net.submissions = @ + 1,
                     ![t].net.manifest =
                         @ + Cardinality({ i \in 1..Len(fs) :
                                 ManifestRequested(fs[i], DefaultForms, cik) })]
                /\ UNCHANGED lock_owner
    /\ UNCHANGED <<stock_cache, cache_locks, locks_lock, builds, returned, calls>>

\* line 86 and the end of the with block: the Stock is stored, the lock released
Publish(t) ==
    /\ th[t].pc = "publish"
    /\ stock_cache' = [stock_cache EXCEPT ![th[t].key] = th[t].stock]
    /\ Release(th[t].lock)
    /\ th' = [th EXCEPT ![t].pc = "return"]
    /\ UNCHANGED <<cache_locks, locks_lock, stocks, builds, returned, calls>>

\* line 88: return stock_cache[cache_key]
Return(t) ==
    /\ th[t].pc = "return"
    /\ th' = [th EXCEPT ![t].pc = "returned", ![t].result = stock_cache[th[t].key]]
    /\ NoteReturn(th[t].key, stock_cache[th[t].key])
    /\ UNCHANGED <<stock_cache, cache_locks, lock_owner, locks_lock, stocks, builds,
                   calls>>

\* the request is over; the thread serves the next one
Finish(t) ==
    /\ th[t].pc \in {"returned", "raised"}
    /\ calls < MaxCalls
    /\ th' = [th EXCEPT ![t] = ThreadIdle]
    /\ UNCHANGED <<stock_cache, cache_locks, lock_owner, locks_lock, stocks, builds,
                   returned, calls>>

(***************************************************************************)
(* Specifications                                                          *)
(***************************************************************************)

CikIdleInit == cik_resp = None /\ cik_out = CikIdle

InitCik == CikInit /\ GfIdle /\ StIdle /\ GsIdle /\ FdIdle /\ ExIdle /\ EfIdle /\ RgIdle
NextCik == GetCik /\ UNCHANGED <<gfVars, stVars, gsVars, fdVars, exVars, efVars, rgVars>>
SpecCik == InitCik /\ [][NextCik]_vars

InitGf == GfInit /\ CikIdleInit /\ StIdle /\ GsIdle /\ FdIdle /\ ExIdle /\ EfIdle /\ RgIdle
NextGf ==
    \/ GfFetchSubmissions /\ UNCHANGED <<cikVars, stVars, gsVars, fdVars, exVars, efVars, rgVars>>
    \/ GfExtractRecent /\ UNCHANGED <<cikVars, stVars, gsVars, fdVars, exVars, efVars, rgVars>>
    \/ GfPage /\ UNCHANGED <<cikVars, stVars, gsVars, fdVars, exVars, efVars, rgVars>>
    \/ GfReturn /\ UNCHANGED <<cikVars, stVars, gsVars, fdVars, exVars, efVars, rgVars>>
SpecGf == InitGf /\ [][NextGf]_vars

InitSt == StInit /\ CikIdleInit /\ GfIdle /\ GsIdle /\ FdIdle /\ ExIdle /\ EfIdle /\ RgIdle
NextSt ==
    \/ StGetCik /\ UNCHANGED <<cikVars, gfVars, gsVars, fdVars, exVars, efVars, rgVars>>
    \/ StGetFilings /\ UNCHANGED <<cikVars, gfVars, gsVars, fdVars, exVars, efVars, rgVars>>
    \/ StIndex /\ UNCHANGED <<cikVars, gfVars, gsVars, fdVars, exVars, efVars, rgVars>>
    \/ StDone /\ UNCHANGED <<cikVars, gfVars, gsVars, fdVars, exVars, efVars, rgVars>>
SpecSt == InitSt /\ [][NextSt]_vars

InitGs == GsInit /\ CikIdleInit /\ GfIdle /\ StIdle /\ FdIdle /\ ExIdle /\ EfIdle /\ RgIdle
NextGs ==
    \/ \E t \in Threads : Call(t) /\ UNCHANGED <<cikVars, gfVars, stVars, fdVars, exVars, efVars, rgVars>>
    \/ \E t \in Threads : FastPath(t) /\ UNCHANGED <<cikVars, gfVars, stVars, fdVars, exVars, efVars, rgVars>>
    \/ \E t \in Threads : LocksLockAcquire(t) /\ UNCHANGED <<cikVars, gfVars, stVars, fdVars, exVars, efVars, rgVars>>
    \/ \E t \in Threads : LookupLock(t) /\ UNCHANGED <<cikVars, gfVars, stVars, fdVars, exVars, efVars, rgVars>>
    \/ \E t \in Threads : KeyLockAcquire(t) /\ UNCHANGED <<cikVars, gfVars, stVars, fdVars, exVars, efVars, rgVars>>
    \/ \E t \in Threads : Recheck(t) /\ UNCHANGED <<cikVars, gfVars, stVars, fdVars, exVars, efVars, rgVars>>
    \/ \E t \in Threads : Construct(t) /\ UNCHANGED <<cikVars, gfVars, stVars, fdVars, exVars, efVars, rgVars>>
    \/ \E t \in Threads : BuildGetCik(t) /\ UNCHANGED <<cikVars, gfVars, stVars, fdVars, exVars, efVars, rgVars>>
    \/ \E t \in Threads : BuildFilings(t) /\ UNCHANGED <<cikVars, gfVars, stVars, fdVars, exVars, efVars, rgVars>>
    \/ \E t \in Threads : Publish(t) /\ UNCHANGED <<cikVars, gfVars, stVars, fdVars, exVars, efVars, rgVars>>
    \/ \E t \in Threads : Return(t) /\ UNCHANGED <<cikVars, gfVars, stVars, fdVars, exVars, efVars, rgVars>>
    \/ \E t \in Threads : Finish(t) /\ UNCHANGED <<cikVars, gfVars, stVars, fdVars, exVars, efVars, rgVars>>
SpecGs == InitGs /\ [][NextGs]_vars

\* the steps of thread t inside a get_stock call
Step(t) ==
    /\ \/ FastPath(t) \/ LocksLockAcquire(t) \/ LookupLock(t) \/ KeyLockAcquire(t)
       \/ Recheck(t) \/ Construct(t) \/ BuildGetCik(t) \/ BuildFilings(t)
       \/ Publish(t) \/ Return(t)
    /\ UNCHANGED <<cikVars, gfVars, stVars, fdVars, exVars, efVars, rgVars>>

\* every request thread keeps running, and every build ends
FairSpecGs == SpecGs /\ \A t \in Threads : WF_vars(Step(t))

InitFd == FdInit /\ CikIdleInit /\ GfIdle /\ StIdle /\ GsIdle /\ ExIdle /\ EfIdle /\ RgIdle
NextFd == GetFilingData /\ UNCHANGED <<cikVars, gfVars, stVars, gsVars, exVars, efVars, rgVars>>
SpecFd == InitFd /\ [][NextFd]_vars

InitEx == ExInit /\ CikIdleInit /\ GfIdle /\ StIdle /\ GsIdle /\ FdIdle /\ EfIdle /\ RgIdle
NextEx ==
    \/ ExFetch /\ UNCHANGED <<cikVars, gfVars, stVars, gsVars, fdVars, efVars, rgVars>>
    \/ ExWrite /\ UNCHANGED <<cikVars, gfVars, stVars, gsVars, fdVars, efVars, rgVars>>
SpecEx == InitEx /\ [][NextEx]_vars

InitEf == EfInit /\ CikIdleInit /\ GfIdle /\ StIdle /\ GsIdle /\ FdIdle /\ ExIdle /\ RgIdle
NextEf == ExtractFilings /\ UNCHANGED <<cikVars, gfVars, stVars, gsVars, fdVars, exVars, rgVars>>
SpecEf == InitEf /\ [][NextEf]_vars

InitRg == RgInit /\ CikIdleInit /\ GfIdle /\ StIdle /\ GsIdle /\ FdIdle /\ ExIdle /\ EfIdle
NextRg ==
    \/ RgCallWithCutoff /\ UNCHANGED <<cikVars, gfVars, stVars, gsVars, fdVars, exVars, efVars>>
    \/ RgCallWithoutCutoff /\ UNCHANGED <<cikVars, gfVars, stVars, gsVars, fdVars, exVars, efVars>>
SpecRg == InitRg /\ [][NextRg]_vars

(***************************************************************************)
(* Properties of get_filings                                               *)
(***************************************************************************)

Min(a, b) == IF a < b THEN a ELSE b

\* the datetime the code compares for a filingDate string
TickOf(s) == IF s.iso THEN s.day * TicksPerDay ELSE Now

\* the dates of a batch that the scan reads
DatesRead(b) ==
    { TickOf(b.filingDate[i]) :
        i \in 1..Min(Len(b.accessionNumber), Len(b.filingDate)) }

\* the batch is not within the window of cutoff c
NotWithin(b, c) == DatesRead(b) = {} \/ \E d \in DatesRead(b) : d < c.at

\* the records of a batch whose four fields are all there, in index order
RecordsOf(b) ==
    LET Whole(i) == /\ i <= Len(b.filingDate)
                    /\ i <= Len(b.form)
                    /\ i <= Len(b.reportDate)
        idxs == SelectSeq([i \in 1..Len(b.accessionNumber) |-> i], Whole)
    IN  [ j \in 1..Len(idxs) |->
            [ accn       |-> b.accessionNumber[idxs[j]],
              form       |-> b.form[idxs[j]],
              filingDate |-> b.filingDate[idxs[j]],
              reportDate |-> b.reportDate[idxs[j]] ] ]

Got(e) == e.resp.ok /\ e.resp.json

\* the records of every batch of the log, batch after batch
RECURSIVE LogRecords(_)
LogRecords(log) ==
    IF log = << >> THEN << >>
    ELSE (IF Got(log[1]) THEN RecordsOf(log[1].resp.data) ELSE << >>)
            \o LogRecords(Tail(log))

\* C5: with a cutoff, no record whose filingDate precedes the cutoff is in the
\* list of get_filings, at any point of the call and in the returned list
C5_NoRecordBeforeCutoff ==
    gf_cutoff.present =>
        \A i \in 1..Len(gf_filings) :
            gf_filings[i].filingDate.iso =>
                gf_filings[i].filingDate.day * TicksPerDay >= gf_cutoff.at

\* C5 happens: a returned call with a cutoff met, over two pages, a record that
\* precedes the cutoff and kept another one
C5_Witness ==
    /\ gf_pc = "done"
    /\ gf_cutoff.present
    /\ Len(gf_log) >= 2
    /\ gf_filings # << >>
    /\ \E j \in 1..Len(gf_log) :
          /\ Got(gf_log[j])
          /\ \E r \in { RecordsOf(gf_log[j].resp.data)[i] :
                          i \in 1..Len(RecordsOf(gf_log[j].resp.data)) } :
                r.filingDate.iso /\ r.filingDate.day * TicksPerDay < gf_cutoff.at

\* C6: overflow pages are fetched one at a time in listed order; with a cutoff,
\* a batch that is not within the window is the last fetch of the call (the
\* recent batch: no overflow page at all), and paging does not stop before one
C6_PagingStopsAtFirstOldBatch ==
    /\ \A j \in 1..Len(gf_log) : gf_log[j].page = j - 1
    /\ gf_cutoff.present =>
        /\ \A j \in 1..Len(gf_log) :
              (Got(gf_log[j]) /\ NotWithin(gf_log[j].resp.data, gf_cutoff))
                  => (j = Len(gf_log) /\ gf_pc \in {"recent", "done"})
        /\ ( /\ gf_pc = "done"
             /\ Got(gf_log[1])
             /\ \A j \in 1..Len(gf_log) :
                   Got(gf_log[j]) => ~NotWithin(gf_log[j].resp.data, gf_cutoff) )
           => Len(gf_log) = gf_sub.nfiles + 1

\* C6 happens: the first overflow page's oldest date precedes the cutoff and
\* the second listed page was never fetched
C6_Witness ==
    /\ gf_pc = "done"
    /\ gf_cutoff.present
    /\ gf_sub.nfiles >= 2
    /\ Len(gf_log) = 2
    /\ Got(gf_log[2])
    /\ \E d \in DatesRead(gf_log[2].resp.data) : d < gf_cutoff.at

\* C7: without a cutoff a returned call has attempted every listed page in
\* order, and its result is the recent batch's records followed by the records
\* of each page that was fetched, in page order and index order
C7_NoCutoffFetchesAll ==
    (gf_pc = "done" /\ ~gf_cutoff.present /\ Got(gf_log[1])) =>
        /\ Len(gf_log) = gf_sub.nfiles + 1
        /\ \A j \in 1..Len(gf_log) : gf_log[j].page = j - 1
        /\ gf_filings = LogRecords(gf_log)

\* C7 happens: the first page is absent, the second one is fetched, and both the
\* recent batch and the second page gave records
C7_Witness ==
    /\ gf_pc = "done"
    /\ ~gf_cutoff.present
    /\ Len(gf_log) = 3
    /\ Got(gf_log[1]) /\ ~gf_log[2].resp.ok /\ Got(gf_log[3])
    /\ Len(RecordsOf(gf_log[1].resp.data)) >= 2
    /\ RecordsOf(gf_log[3].resp.data) # << >>

\* the batch of log entry j has gone through _extract_filings
Extracted(j) == Got(gf_log[j]) /\ (j < Len(gf_log) \/ gf_pc # "recent")

\* the scan of the batch reads no filingDate that parses
ZeroParseable(b) ==
    \A i \in 1..Min(Len(b.accessionNumber), Len(b.filingDate)) : ~b.filingDate[i].iso

\* the scan of the batch reads no filingDate at all
NoDateRead(b) == Min(Len(b.accessionNumber), Len(b.filingDate)) = 0

\* the call went on after the batch of log entry j: it was not the batch that
\* ended the paging
WentOn(j) ==
    \/ j < Len(gf_log)
    \/ gf_pc = "pages"
    \/ gf_pc = "done" /\ j = gf_sub.nfiles + 1

\* the cutoff is not after datetime.now()
CutoffNotInFuture == gf_cutoff.present /\ gf_cutoff.at <= Now

\* C15 as stated: with a cutoff, a batch in which no filingDate parses, the
\* batch of unparseable strings included, is not within the window: it is the
\* last fetch of the call
C15_ZeroParseableStops ==
    gf_cutoff.present =>
        \A j \in 1..Len(gf_log) :
            (Got(gf_log[j]) /\ ZeroParseable(gf_log[j].resp.data))
                => (j = Len(gf_log) /\ gf_pc \in {"recent", "done"})

\* C15 amended: with a cutoff, a batch from which no filingDate is read (no
\* record, or no filingDate entry for any record) is not within the window and
\* is the last fetch of the call; a batch whose filingDate strings are read and
\* are all unparseable is within the window when the cutoff is not in the
\* future, and the paging goes on after it
C15_NoDateReadStops ==
    gf_cutoff.present =>
        \A j \in 1..Len(gf_log) :
            Got(gf_log[j]) =>
                /\ NoDateRead(gf_log[j].resp.data)
                      => (j = Len(gf_log) /\ gf_pc \in {"recent", "done"})
                /\ ( /\ Extracted(j)
                     /\ CutoffNotInFuture
                     /\ ZeroParseable(gf_log[j].resp.data)
                     /\ ~NoDateRead(gf_log[j].resp.data) )
                      => WentOn(j)

\* C15 happens: under a cutoff that is not in the future the recent batch has
\* nothing but unparseable dates and the first page was fetched after it; that
\* page has no record, and the second listed page was never fetched
C15_Witness ==
    /\ gf_pc = "done"
    /\ CutoffNotInFuture
    /\ gf_sub.nfiles = 2
    /\ Len(gf_log) = 2
    /\ Got(gf_log[1]) /\ Got(gf_log[2])
    /\ ZeroParseable(gf_log[1].resp.data)
    /\ Len(gf_log[1].resp.data.filingDate) >= 2
    /\ NoDateRead(gf_log[2].resp.data)

\* C16: under a cutoff that is not in the future, every record with an
\* unparseable filingDate is in the list once its batch is extracted, and a
\* batch in which no parseable date precedes the cutoff, and some date was
\* read, does not end the paging
C16_UnparseableIsNow ==
    CutoffNotInFuture =>
        \A j \in 1..Len(gf_log) :
            Extracted(j) =>
                LET b == gf_log[j].resp.data
                    recs == RecordsOf(b)
                IN  /\ \A i \in 1..Len(recs) :
                          ~recs[i].filingDate.iso
                              => \E k \in 1..Len(gf_filings) : gf_filings[k] = recs[i]
                    /\ ( /\ ~NoDateRead(b)
                         /\ \A i \in 1..Min(Len(b.accessionNumber), Len(b.filingDate)) :
                               b.filingDate[i].iso
                                   => b.filingDate[i].day * TicksPerDay >= gf_cutoff.at )
                          => WentOn(j)

\* C16 happens: the recent batch has a record with an unparseable date next to
\* one dated within the window, the unparseable one is in the returned list, and
\* the first page was fetched after it
C16_Witness ==
    /\ gf_pc = "done"
    /\ CutoffNotInFuture
    /\ Len(gf_log) >= 2
    /\ Got(gf_log[1])
    /\ \E i, k \in 1..Len(RecordsOf(gf_log[1].resp.data)) :
          /\ ~RecordsOf(gf_log[1].resp.data)[i].filingDate.iso
          /\ RecordsOf(gf_log[1].resp.data)[k].filingDate.iso
          /\ \E n \in 1..Len(gf_filings) :
                gf_filings[n] = RecordsOf(gf_log[1].resp.data)[i]

(***************************************************************************)
(* Properties of _extract_filings                                          *)
(***************************************************************************)

EfDone == ef_out.kind = "return"

\* position i of the batch has its four fields
WholeAt(b, i) ==
    i <= Len(b.filingDate) /\ i <= Len(b.form) /\ i <= Len(b.reportDate)

\* the record of position i is due in the list: its fields are there and its
\* date does not precede the cutoff
DueAt(b, i, c) ==
    WholeAt(b, i) /\ (c.present => TickOf(b.filingDate[i]) >= c.at)

\* the record of position i
RecordAt(b, i) ==
    [ accn       |-> b.accessionNumber[i],
      form       |-> b.form[i],
      filingDate |-> b.filingDate[i],
      reportDate |-> b.reportDate[i] ]

\* the positions of the batch that are due in the list, in index order
DuePositions(b, c) ==
    LET Due(i) == DueAt(b, i, c)
    IN  SelectSeq([i \in 1..Len(b.accessionNumber) |-> i], Due)

\* the oldest of a non-empty set of datetimes
Oldest(ds) == CHOOSE d \in ds : \A e \in ds : d <= e

\* C21: a position with a missing filingDate, form or reportDate entry appends
\* nothing: the list after the call is the list before it followed by the
\* records of the positions that have their fields (and, under a cutoff, a
\* date that does not precede it), in index order; the scan goes on past such
\* a position: under a cutoff the returned flag says whether the oldest of all
\* the dates read, of appended records or not, is on or after the cutoff
C21_MissingFieldSkipsOnePosition ==
    EfDone =>
        LET out == ef_out.value
            due == DuePositions(ef_data, ef_cutoff)
        IN  /\ Len(out.filings) = Len(ef_filings) + Len(due)
            /\ SubSeq(out.filings, 1, Len(ef_filings)) = ef_filings
            /\ \A j \in 1..Len(due) :
                  out.filings[Len(ef_filings) + j] = RecordAt(ef_data, due[j])
            /\ (ef_cutoff.present /\ DatesRead(ef_data) # {}) =>
                  (out.within <=> Oldest(DatesRead(ef_data)) >= ef_cutoff.at)

\* C21 happens: under a cutoff a batch of three positions of which the last two
\* have no form entry; the first record is appended after an earlier one, and
\* the date of the third position, older than the cutoff and older than the
\* other two, makes the flag false
C21_Witness ==
    /\ EfDone
    /\ ef_cutoff.present
    /\ ef_filings # << >>
    /\ Len(ef_data.accessionNumber) = 3
    /\ Len(ef_data.filingDate) = 3
    /\ Len(ef_data.form) = 1
    /\ TickOf(ef_data.filingDate[1]) >= ef_cutoff.at
    /\ TickOf(ef_data.filingDate[2]) >= ef_cutoff.at
    /\ TickOf(ef_data.filingDate[3]) < ef_cutoff.at
    /\ Len(ef_out.value.filings) = 2
    /\ ~ef_out.value.within

\* the calendar day of a datetime
DayOf(t) == t \div TicksPerDay

\* C22: under a cutoff, one that Stock._init_filings computes included, every
\* record whose filingDate is the calendar day of the cutoff is in the list
\* after the call
C22_SameDayRetained ==
    (EfDone /\ ef_cutoff.present) =>
        \A i \in 1..Len(ef_data.accessionNumber) :
            ( /\ WholeAt(ef_data, i)
              /\ ef_data.filingDate[i].iso
              /\ ef_data.filingDate[i].day = DayOf(ef_cutoff.at) )
                => \E k \in 1..Len(ef_out.value.filings) :
                      ef_out.value.filings[k] = RecordAt(ef_data, i)

(***************************************************************************)
(* Properties of get_filings with and without a cutoff                     *)
(***************************************************************************)

RgDone == rg_with.kind # "idle" /\ rg_without.kind # "idle"

\* every fetch succeeds and gives a batch
AllFetched == \A j \in 1..Len(rg_answers) : rg_answers[j].ok /\ rg_answers[j].json

\* every filingDate of the registry parses
AllParse ==
    \A j \in 1..Len(rg_answers) :
        \A i \in 1..Len(rg_answers[j].data.filingDate) :
            rg_answers[j].data.filingDate[i].iso

\* newest first across pages: every date of a later page is on or before every
\* date of each earlier page; any order inside a page, and a page may be empty
NewestFirst ==
    \A j1, j2 \in 1..Len(rg_answers) :
        j1 < j2 =>
            \A d1 \in DatesRead(rg_answers[j1].data), d2 \in DatesRead(rg_answers[j2].data) :
                d2 <= d1

\* every batch of the registry has a filingDate that the scan reads
NoDatelessBatch ==
    \A j \in 1..Len(rg_answers) : ~NoDateRead(rg_answers[j].data)

\* the list restricted to filingDate >= cutoff, in the same order
Retained(filings, c) ==
    LET Keep(r) == TickOf(r.filingDate) >= c.at
    IN  SelectSeq(filings, Keep)

IsPrefix(a, b) == Len(a) <= Len(b) /\ a = SubSeq(b, 1, Len(a))

IsLeftPadded(v, raw) ==
    /\ Len(v) >= Len(raw)
    /\ \A i \in 1..Len(v) :
          v[i] = IF i <= Len(v) - Len(raw) THEN "0" ELSE raw[i - (Len(v) - Len(raw))]

FirstRawId == cik_resp.hits[1]

\* C9: get_cik never raises; a transport failure, a non-success status and any
\* parse failure of the response end in a return
C9_GetCikNeverRaises == cik_out.kind # "raise"

RECURSIVE IsSubSeq(_, _)
IsSubSeq(s, t) ==
    IF s = << >> THEN TRUE
    ELSE IF t = << >> THEN FALSE
    ELSE IF s[1] = t[1] THEN IsSubSeq(Tail(s), Tail(t))
    ELSE IsSubSeq(s, Tail(t))

Metadata(bundles) == [j \in 1..Len(bundles) |-> bundles[j].metadata]

\* C8: every bundle of the list a Stock is built with has a form of the
\* requested filing_forms, and the bundles follow the order of the enumerated
\* filing list
C8_BundlesHaveRequestedForms ==
    /\ \A j \in 1..Len(st_selected) : st_selected[j].metadata.form \in st_forms
    /\ IsSubSeq(Metadata(st_selected), st_all)
    /\ st_pc = "built" => st_filings = st_selected

\* C8 happens: a built Stock with two bundles of different forms, after a
\* filing of another form was left out
C8_Witness ==
    /\ st_pc = "built"
    /\ Len(st_filings) = 2
    /\ \E i \in 1..Len(st_all) : st_all[i].form \notin st_forms
    /\ Cardinality({ st_all[i].form : i \in 1..Len(st_all) } \cap st_forms) = 2

\* the calls of get_filing_data that returned an index
Indexed(accn) ==
    \E n \in 1..Len(st_calls) : st_calls[n].accn = accn /\ st_calls[n].outcome = "ok"

\* C17: a get_filing_data call that fails, with 404 or with any other
\* exception, leaves the construction in the loop: the filing is skipped, every
\* filing before and after it that has a requested form is still given to
\* get_filing_data and is in the list when its call returns, and the Stock is
\* built; the construction raises only before the first get_filing_data call
C17_IndexFailureSkipsOneFiling ==
    /\ [](st_pc = "raised" => st_calls = << >>)
    /\ [](st_pc \in {"index", "built"} =>
            LET done == SubSeq(st_all, 1, st_i - 1)
            IN  /\ \A i \in 1..Len(done) :
                      FormWanted(done[i], st_forms)
                          <=> \E n \in 1..Len(st_calls) : st_calls[n].accn = done[i].accn
                /\ Metadata(st_selected)
                      = SelectSeq(done, LAMBDA f : Indexed(f.accn)))
    /\ [](st_pc = "built" => st_i = Len(st_all) + 1 /\ st_filings = st_selected)
    /\ [][st_pc = "index" => st_pc' \in {"index", "built"}]_vars

\* C17 happens: a built Stock for which the manifest of the first filing was
\* not found and the call for the second one failed otherwise, both of a
\* requested form, and whose list holds the third filing
C17_Witness ==
    /\ st_pc = "built"
    /\ Len(st_calls) = 3
    /\ st_calls[1].outcome = "404"
    /\ st_calls[2].outcome = "error"
    /\ st_calls[3].outcome = "ok"
    /\ st_cik # << >>
    /\ Len(st_filings) = 1
    /\ st_filings[1].metadata = st_all[3]

(***************************************************************************)
(* Properties of get_stock                                                 *)
(***************************************************************************)

InCall(t) == th[t].pc # "idle" /\ th[t].client

Building(t) == th[t].pc \in {"build_cik", "build_filings"}

\* thread t's call ran Stock(...) and its get_cik returned the empty string
Unresolved(t) ==
    /\ th[t].stock # 0
    /\ stocks[th[t].stock].stage # "new"
    /\ stocks[th[t].stock].cik = << >>

\* every thread is in its first get_stock call, all for key k with a valid client
AllCalling(k) ==
    /\ calls = NumThreads
    /\ \A t \in Threads : InCall(t) /\ th[t].key = k

\* C1: for threads that call get_stock with the same key and a valid client,
\* Stock(...) is executed exactly once and all calls return the same object
C1_BuildExactlyOnce ==
    \A k \in Keys :
        AllCalling(k) =>
            /\ builds[k] <= 1
            /\ \A t \in Threads :
                  th[t].pc = "returned" =>
                      /\ builds[k] = 1
                      /\ th[t].result # 0
                      /\ th[t].result = returned[k]

\* C2: a key is in stock_cache only with a Stock whose construction is over,
\* and no call, the lock-free fast path included, returns a Stock that is
\* still being built
C2_OnlyBuiltStocksVisible ==
    /\ \A k \in Keys :
          InCache(stock_cache, k) =>
              /\ stocks[stock_cache[k]].stage = "built"
              /\ \A t \in Threads : Building(t) => th[t].stock # stock_cache[k]
    /\ \A t \in Threads :
          th[t].result # 0 => stocks[th[t].result].stage = "built"

\* C2 happens: a call took the fast path and returned a Stock with a bundle
\* while another thread was in the middle of a build
C2_Witness ==
    \E t1, t2 \in Threads :
        /\ th[t1].pc = "returned" /\ th[t1].lock = 0 /\ th[t1].result # 0
        /\ stocks[th[t1].result].filings # << >>
        /\ th[t2].pc = "build_filings"

Later(t) == th[t].pc = "returned" /\ th[t].client /\ th[t].prior # 0

\* C4: once a call has returned a Stock for a key, every later call for the key
\* returns that object without a network fetch, and an entry of stock_cache is
\* never replaced or removed
C4_CachedForGood ==
    /\ [](\A t \in Threads :
            Later(t) => (th[t].result = th[t].prior /\ th[t].net = NoNet))
    /\ [][\A k \in Keys :
            InCache(stock_cache, k) => stock_cache'[k] = stock_cache[k]]_vars

\* C4 happens: a later call returned the earlier Stock, after a build for
\* another key
C4_Witness ==
    \E t \in Threads :
        /\ Later(t)
        /\ th[t].result = th[t].prior
        /\ \E k \in Keys : k # th[t].key /\ InCache(stock_cache, k)

\* thread t is inside `with lock:` for its key
InLock(t) == th[t].pc \in {"recheck", "construct", "build_cik", "build_filings", "publish"}

\* thread t waits for, or is about to ask for, the lock of its key
AtLock(t) == th[t].pc = "acquire"

\* C18: the lock a thread holds or waits for is the lock of its own key, keys
\* do not share a lock, so a thread that builds key A holds nothing that a call
\* for another key B needs: whenever such a call stands at `with lock:`, B's
\* lock is free or held by a thread that is in B's own locked section; and the
\* thread that holds _locks_lock is in the lookup of _get_lock, it does not
\* wait for a per-key lock and runs no Stock build
C18_KeysBuildInParallel ==
    /\ \A k1, k2 \in Keys :
          (k1 # k2 /\ cache_locks[k1] # 0) => cache_locks[k1] # cache_locks[k2]
    /\ \A t \in Threads :
          /\ th[t].lock # 0 => cache_locks[th[t].key] = th[t].lock
          /\ locks_lock = t => (th[t].pc = "lookup_lock" /\ ~AtLock(t) /\ ~InLock(t))
          /\ (th[t].pc # "lookup_lock") => locks_lock # t
    /\ \A l \in 1..Len(lock_owner) :
          lock_owner[l] # 0 =>
              /\ InLock(lock_owner[l])
              /\ th[lock_owner[l]].lock = l
    /\ \A t1, t2 \in Threads :
          (Building(t1) /\ th[t2].key # th[t1].key) =>
              /\ AtLock(t2) => lock_owner[th[t2].lock] # t1
              /\ th[t2].pc = "get_lock" => locks_lock # t1
    /\ \A t1, t2 \in Threads :
          ( /\ Building(t1) /\ AtLock(t2) /\ th[t2].key # th[t1].key
            /\ \A t3 \in Threads \ {t1, t2} : ~InLock(t3) )
              => ENABLED KeyLockAcquire(t2)

\* C18 happens: two threads are in the Stock builds of two different keys at
\* the same time
C18_Witness ==
    \E t1, t2 \in Threads :
        /\ th[t1].pc = "build_filings"
        /\ th[t2].pc = "build_filings"
        /\ th[t1].key # th[t2].key
        /\ lock_owner[th[t1].lock] = t1
        /\ lock_owner[th[t2].lock] = t2

\* thread t waits at `with lock:` for a key that has been published
BlockedOnPublished(t) == AtLock(t) /\ InCache(stock_cache, th[t].key)

\* thread t returned the Stock stored for its key and started no build
ReturnedCached(t) ==
    /\ th[t].pc = "returned"
    /\ th[t].result # 0
    /\ th[t].result = stock_cache[th[t].key]
    /\ th[t].stock = 0

\* C19: while a thread is in the locked section of key K, the build included,
\* no other call for K is past `with lock:`; and a call that waits at
\* `with lock:` for a key that the builder has published goes on to take the
\* lock, finds the key on the re-check and returns the stored Stock, without
\* a build of its own
C19_BlockedCallersGetBuildersStock ==
    /\ [](\A t1, t2 \in Threads :
            (t1 # t2 /\ InLock(t1) /\ th[t2].key = th[t1].key /\ th[t2].client)
                => ~InLock(t2))
    /\ [][\A t \in Threads :
            (BlockedOnPublished(t) /\ th'[t] # th[t])
                => (th'[t].pc = "recheck" /\ lock_owner'[th[t].lock] = t)]_vars
    /\ [][\A t \in Threads :
            (th[t].pc = "recheck" /\ InCache(stock_cache, th[t].key) /\ th'[t] # th[t])
                => (th'[t].pc = "returned" /\ builds' = builds /\ th'[t].stock = 0)]_vars
    /\ \A t \in Threads : BlockedOnPublished(t) ~> ReturnedCached(t)

\* C19 happens: a call that found its key absent on the fast path has gone
\* through the lock, found the key on the re-check and returned the Stock that
\* another thread built, while the builder has not yet left get_stock
C19_Witness ==
    \E t1, t2 \in Threads :
        /\ t1 # t2
        /\ th[t1].key = th[t2].key
        /\ th[t1].pc = "return"
        /\ th[t2].pc = "returned"
        /\ th[t2].lock # 0
        /\ th[t2].prior = 0
        /\ th[t2].stock = 0
        /\ th[t2].result = th[t1].stock

\* thread t's call is over: it returned or an exception left it
CallOver(t) == th[t].pc \in {"returned", "raised"}

\* C24: the step in which a build raises releases the lock of the key and
\* leaves stock_cache as it is, the key not in it; a call that an exception
\* has left holds no lock; the next call that gets the lock of the key finds
\* the key absent on the re-check and starts a build of its own; and every
\* get_stock call comes to an end, given that every thread keeps running and
\* every build ends
C24_RaisingBuildFreesTheKey ==
    /\ [][\A t \in Threads :
            (th[t].pc # "raised" /\ th'[t].pc = "raised") =>
                /\ Building(t)
                /\ lock_owner[th[t].lock] = t
                /\ lock_owner'[th[t].lock] = 0
                /\ stock_cache' = stock_cache
                /\ ~InCache(stock_cache', th[t].key)]_vars
    /\ [](\A t \in Threads :
            th[t].pc = "raised" =>
                /\ locks_lock # t
                /\ \A l \in 1..Len(lock_owner) : lock_owner[l] # t)
    /\ [][\A t \in Threads :
            ( /\ th[t].pc = "recheck"
              /\ ~InCache(stock_cache, th[t].key)
              /\ th'[t] # th[t] )
                => (th'[t].pc = "construct" /\ lock_owner'[th[t].lock] = t)]_vars
    /\ \A t \in Threads : (th[t].pc # "idle") ~> CallOver(t)

\* C24 happens: an exception has left the call of one thread for a key, and a
\* call of another thread, which went through the lock of the same key, has
\* run the second build of the key and returned its Stock
C24_Witness ==
    \E t1, t2 \in Threads :
        /\ t1 # t2
        /\ th[t1].key = th[t2].key
        /\ th[t1].pc = "raised"
        /\ th[t2].pc = "returned"
        /\ th[t2].lock # 0
        /\ th[t2].stock # 0
        /\ th[t2].result = th[t2].stock
        /\ builds[th[t2].key] = 2

(***************************************************************************)
(* Properties of get_filing_data                                           *)
(***************************************************************************)

SepAt(s, i) == i + 2 <= Len(s) /\ s[i] = " " /\ s[i + 1] = "-" /\ s[i + 2] = " "

HasSep(s) == \E i \in 1..Len(s) : SepAt(s, i)

\* c is seg without its leading and trailing blanks, in lower case
IsTrimmedLower(seg, c) ==
    \E a, b \in 0..Len(seg) :
        /\ a + b <= Len(seg)
        /\ \A k \in 1..a : seg[k] = " "
        /\ \A k \in (Len(seg) - b + 1)..Len(seg) : seg[k] = " "
        /\ Len(c) = Len(seg) - a - b
        /\ c # << >> => seg[a + 1] # " " /\ seg[Len(seg) - b] # " "
        /\ \A k \in 1..Len(c) : c[k] = LowerChar(seg[a + k])

\* c is the category of the long name: what stands between the first " - "
\* and the next one (or the end), trimmed and lower-cased
IsCategoryOf(name, c) ==
    \E i \in 1..Len(name), j \in 1..(Len(name) + 1) :
        /\ SepAt(name, i)
        /\ \A k \in 1..(i - 1) : ~SepAt(name, k)
        /\ j >= i + 3
        /\ \A k \in (i + 3)..(j - 1) : ~SepAt(name, k)
        /\ j = Len(name) + 1 \/ SepAt(name, j)
        /\ IsTrimmedLower(SubSeq(name, i + 3, j - 1), c)

\* a <Report> that has a short name, a long name with a " - " in it and a file
WellFormed(report) ==
    /\ report.short
    /\ report.long # NoLong
    /\ report.file # "none"
    /\ HasSep(LongText(report.long))

\* the places of the index where the report of manifest position i stands
PlacesOf(index, i) ==
    { <<c, j>> \in UNION { { <<c, j>> : j \in 1..Len(index[c]) } : c \in DOMAIN index } :
        index[c][j].name_short = i }

InIndex(index, i) == PlacesOf(index, i) # {}

FdIndexed == fd_out.kind = "return" /\ fd_resp.root

StatementCategory == <<"s", "t", "a", "t", "e", "m", "e", "n", "t">>

\* C11: every entry of the returned index stands in exactly one category, the
\* segment of its long name after the first " - ", trimmed and lower-cased
\* ("004 - Statement - Balance Sheet" under "statement"); a category lists its
\* entries in manifest order; of the entries the loop visits, the ones with
\* no " - " in the long name are in no category and every well-formed one is
\* in the index, whatever stands before it
C11_OneCategoryPerEntry ==
    FdIndexed =>
        LET index == fd_out.value
            reports == fd_resp.reports
        IN  /\ \A c \in DOMAIN index :
                  /\ index[c] # << >>
                  /\ \A j \in 1..Len(index[c]) :
                        /\ index[c][j].name_short \in 1..Len(reports)
                        /\ index[c][j].name_long
                              = LongText(reports[index[c][j].name_short].long)
                        /\ IsCategoryOf(index[c][j].name_long, c)
                        /\ index[c][j].name_long = ExampleLong
                              => c = StatementCategory
                  /\ \A j, k \in 1..Len(index[c]) :
                        j < k => index[c][j].name_short < index[c][k].name_short
            /\ \A i \in 1..Len(reports) : Cardinality(PlacesOf(index, i)) <= 1
            /\ \A i \in 1..(Len(reports) - 1) : InIndex(index, i) <=> WellFormed(reports[i])

\* C11 happens: two entries of one category with an entry without " - "
\* between them, and a third category-bearing entry under another category
C11_Witness ==
    /\ FdIndexed
    /\ \E c \in DOMAIN fd_out.value :
          /\ Len(fd_out.value[c]) = 2
          /\ fd_out.value[c][1].name_short = 1
          /\ fd_out.value[c][2].name_short = 3
          /\ fd_out.value[c][1].name_long # fd_out.value[c][2].name_long
    /\ fd_resp.reports[2].long # NoLong
    /\ ~HasSep(LongText(fd_resp.reports[2].long))
    /\ Cardinality(DOMAIN fd_out.value) = 1

\* C20: every well-formed <Report> of the manifest is in the returned index;
\* only a trailing summary entry is left out
C20_EveryReportIndexed ==
    FdIndexed =>
        \A i \in 1..Len(fd_resp.reports) :
            WellFormed(fd_resp.reports[i]) => InIndex(fd_out.value, i)

(***************************************************************************)
(* Properties of export_url                                                *)
(***************************************************************************)

\* the column is the five labels of an XBRL definition table, in their order
IsNoise(column) ==
    /\ Len(column) = 5
    /\ column[1] = "Name:"
    /\ column[2] = "Namespace Prefix:"
    /\ column[3] = "Data Type:"
    /\ column[4] = "Balance Type:"
    /\ column[5] = "Period Type:"

\* the document was fetched: a response with status 200
ExFetched == ~ex_resp.transport /\ ex_resp.status = 200

\* the tables of the document that pandas could read
ParsedTables == { i \in 1..Len(ex_resp.tables) : ex_resp.tables[i].parses }

KeptTable(i) == \E j \in 1..Len(ex_tables) : ex_tables[j].idx = i

SheetOf(i) ==
    { j \in 1..Len(ex_file.sheets) :
        ex_file.sheets[j].kind = "table" /\ ex_file.sheets[j].idx = i }

\* title is the first SheetNameMax characters of name, or all of it
IsTruncated(title, name) ==
    /\ Len(title) = Min(Len(name), SheetNameMax)
    /\ \A k \in 1..Len(title) : title[k] = name[k]

\* C12: a table of the fetched document is dropped exactly when its first
\* column is the five-label sequence; every other table that was read is kept
\* and has its sheet in the saved workbook
C12_DroppedIffExactLabels ==
    (ExFetched /\ ex_pc # "fetch") =>
        /\ \A i \in ParsedTables : KeptTable(i) <=> ~IsNoise(ex_resp.tables[i].column)
        /\ ex_pc = "done" =>
              \A i \in ParsedTables :
                  SheetOf(i) # {} <=> ~IsNoise(ex_resp.tables[i].column)

\* C12 happens: a saved export of a document with four tables, whose first
\* columns are the label sequence, its first four labels, the sequence with a
\* sixth row and the sequence with two labels swapped: three sheets
C12_Witness ==
    /\ ex_pc = "done"
    /\ ex_category = "statement"
    /\ Len(ex_resp.tables) = 4
    /\ ex_resp.tables[1].column = EXPECTED_FIRST_COLUMN
    /\ ex_resp.tables[2].column = SubSeq(EXPECTED_FIRST_COLUMN, 1, 4)
    /\ ex_resp.tables[3].column = EXPECTED_FIRST_COLUMN \o <<"Extra:">>
    /\ ex_resp.tables[4].parses
    /\ ex_resp.tables[4].column[1] = "Namespace Prefix:"
    /\ Len(ex_file.sheets) = 3

\* C13: when the fetch of the document fails in transport or answers with
\* another status than 200, export_url raises, no workbook is created and
\* nothing is written at the path
C13_NoFetchNoWorkbook ==
    ~ExFetched =>
        /\ ex_pc \in {"fetch", "raised"}
        /\ ~ex_wb.created
        /\ ex_file = NoFile

\* C13 happens: the document request was answered with 404 and the call raised
C13_Witness ==
    /\ ex_pc = "raised"
    /\ ex_resp.status = 404
    /\ ~ex_wb.created

\* C14: the saved workbook has one sheet for each table that was read and is
\* not an XBRL definition table, in document order, titled with the first 31
\* characters of the table's name, followed by one text sheet exactly when
\* the category is not "statement"
C14_SheetsOfSavedWorkbook ==
    ex_pc = "done" =>
        LET sh == ex_file.sheets
            texts == { j \in 1..Len(sh) : sh[j].kind = "text" }
        IN  /\ ex_file.state = "workbook"
            /\ \A i \in ParsedTables :
                  Cardinality(SheetOf(i)) =
                      IF IsNoise(ex_resp.tables[i].column) THEN 0 ELSE 1
            /\ \A j \in 1..Len(sh) :
                  sh[j].kind = "table" =>
                      /\ sh[j].idx \in ParsedTables
                      /\ IsTruncated(sh[j].title, TableName(sh[j].idx))
            /\ \A j, k \in 1..Len(sh) :
                  (j < k /\ sh[j].kind = "table" /\ sh[k].kind = "table")
                      => sh[j].idx < sh[k].idx
            /\ Cardinality(texts) = IF ex_category = "statement" THEN 0 ELSE 1
            /\ \A j \in texts : j = Len(sh) /\ sh[j].title = TextContent

\* C14 happens: a saved export in another category than "statement", of a
\* document with a table pandas cannot read, an XBRL definition table and two
\* other tables: two table sheets and the text sheet after them
C14_Witness ==
    /\ ex_pc = "done"
    /\ ex_category = "disclosure"
    /\ \E i \in 1..Len(ex_resp.tables) : ~ex_resp.tables[i].parses
    /\ \E i \in ParsedTables : IsNoise(ex_resp.tables[i].column)
    /\ Len(ex_file.sheets) = 3
    /\ ex_file.sheets[3].kind = "text"

====
